---------------------------- MODULE Spec2Model ----------------------------
(***************************************************************************)
(* custom-captcha: the server side of a sliding-puzzle captcha             *)
(* (createCaptcha, getCaptchaImage, verifyCaptcha, hasCaptchaBeenVerified) *)
(* over an injected key-value store, and the client component that shows   *)
(* the challenge and submits the slider position through two callbacks.    *)
(*                                                                         *)
(* Strings the code parses or formats are sequences of one-character      *)
(* strings, so that parseInt and toString are computed, not assumed.      *)
(* Identifiers and messages, which the code only compares or passes on,   *)
(* are TLA+ strings.  An optional argument is <<>> (omitted) or <<v>>.    *)
(***************************************************************************)
EXTENDS Integers, Sequences, FiniteSets

VARIABLES
    store,      \* the injected storage: captcha id -> stored string, or Null
    calls,      \* the calls in progress, one record per call slot
    ret,        \* the call that returned (or threw) in the last step, with its locals;
                \* NoReturn when the last step was no return
    succeeded,  \* history: the ids for which a verifyCaptcha call has returned success
    minted,     \* the ids randomUUID has handed out
    failures,   \* history: for each id a specification observes, how many verifyCaptcha
                \* calls have failed on the challenge now pending under it
    widget      \* the state of the client component and of the callbacks it awaits

vars == <<store, calls, ret, succeeded, minted, failures, widget>>

----------------------------------------------------------------------------
(* Bounds of the model *)

\* ids randomUUID can hand out
MaxUuid == 1
\* verifyCaptcha calls in progress at once, in the specification of concurrent calls
MaxCalls == 2
\* failed verifyCaptcha calls counted on one challenge (the count stops there)
MaxFailures == 2
\* callbacks of one kind the client component awaits at once
MaxPending == 1
\* resolution of the modelled Math.random(): it returns k / RandRes, k in 0..RandRes-1
RandRes == 498

----------------------------------------------------------------------------
(* Program constants *)

ON_VERIFY_CAPTCHA_VALUE == <<"v", "e", "r", "i", "f", "i", "e", "d">>

MinOffset == 55
RandomSpan == 249
PieceTop == 75
PieceWidth == 50
PieceHeight == 50
DefaultTolerance == 10
\* the working image size of the remote source (picsum .../300/200) and of the widget
ImageWidth == 300
ImageHeight == 200

ReasonNotFound == "Captcha not found or has expired"
ReasonInvalid == "Invalid position values"
ReasonIncorrect == "Please position the puzzle piece correctly"
VerificationErrorPrefix == "Verification error: "
UnknownError == "Unknown error"
NoImageMessage == "Failed to obtain captcha image"
FetchErrorPrefix == "Failed to fetch captcha image: "
FallbackErrorPrefix == "Failed to fetch image from API and fallback: "

----------------------------------------------------------------------------
(* Values *)

\* getCaptchaValue's null: no entry (unknown, expired or deleted)
Null == <<"NULL">>
None == <<>>
Some(v) == <<v>>
IsSome(o) == o # <<>>
The(o) == o[1]

Digits == <<"0", "1", "2", "3", "4", "5", "6", "7", "8", "9">>
IsDigit(ch) == \E i \in 1..10 : Digits[i] = ch
DigitValue(ch) == (CHOOSE i \in 1..10 : Digits[i] = ch) - 1
IsSpace(ch) == ch = " "

Max(a, b) == IF a >= b THEN a ELSE b
Abs(a) == IF a >= 0 THEN a ELSE -a

RECURSIVE NatToString(_)
NatToString(n) ==
    IF n < 10 THEN <<Digits[n + 1]>>
    ELSE Append(NatToString(n \div 10), Digits[(n % 10) + 1])

\* Number.prototype.toString of an integer
ToString(n) == IF n < 0 THEN <<"-">> \o NatToString(-n) ELSE NatToString(n)

RECURSIVE SkipSpaces(_)
SkipSpaces(s) ==
    IF s # <<>> /\ IsSpace(Head(s)) THEN SkipSpaces(Tail(s)) ELSE s

RECURSIVE DigitPrefix(_)
DigitPrefix(s) ==
    IF s # <<>> /\ IsDigit(Head(s)) THEN <<Head(s)>> \o DigitPrefix(Tail(s)) ELSE <<>>

RECURSIVE DigitsValue(_)
DigitsValue(ds) ==
    IF ds = <<>> THEN 0
    ELSE 10 * DigitsValue(SubSeq(ds, 1, Len(ds) - 1)) + DigitValue(ds[Len(ds)])

\* parseInt(s, 10): leading white space is skipped, one sign is read, then the
\* longest run of digits; None is NaN (no digit where one is needed).
ParseInt(s) ==
    LET t == SkipSpaces(s)
        neg == t # <<>> /\ Head(t) = "-"
        u == IF t # <<>> /\ Head(t) \in {"-", "+"} THEN Tail(t) ELSE t
        ds == DigitPrefix(u)
    IN  IF ds = <<>> THEN None
        ELSE Some(IF neg THEN -DigitsValue(ds) ELSE DigitsValue(ds))

IsNaN(p) == p = None

\* JavaScript truthiness of a string | null
Truthy(s) == s # Null /\ s # <<>>

----------------------------------------------------------------------------
(* Inputs of the model *)

\* call slots of Spec, SpecDraw and SpecStatus, where the exported functions are
\* called one at a time, a call beginning when the one before it is over
\* (SpecConc has the concurrent calls)
Calls == {1}

UuidPool == <<"uuid-1", "uuid-2", "uuid-3", "uuid-4">>
Uuids == {UuidPool[i] : i \in 1..MaxUuid}
CallerIds == {"a"}
Ids == CallerIds \cup Uuids

\* the minted ids a caller can know: those of createCaptcha calls that are over
KnownUuids ==
    {u \in minted : \A c \in DOMAIN calls :
        ~(calls[c].op = "create" /\ calls[c].id = u /\ calls[c].captchaId \in {None, Some("")})}

\* what a caller can pass as captchaId to createCaptcha: nothing, "", an id of
\* its own, or an id an earlier createCaptcha call minted
CaptchaIdArgs == {None, Some("")} \cup {Some(i) : i \in CallerIds \cup KnownUuids}

\* Math.random() outcomes k / RandRes kept for the protocol model
RandomSamples == {0, RandRes - 1}
RandomAll == 0..(RandRes - 1)

\* submitted slider values
Str_abc == <<"a", "b", "c">>
SubmitNumbers == {56, 57, 65, 66}
\* an integer followed by other characters
Str_56px == <<"5", "6", "p", "x">>
SubmitValues == {ToString(n) : n \in SubmitNumbers} \cup {Str_abc, Str_56px}

Tolerances == {None, Some(0), Some(1)}

\* what an injected function can throw: an Error with a message, or a value
\* that is no Error
Thrown == {[isError |-> TRUE, message |-> "ECONNRESET"],
           [isError |-> FALSE, message |-> "not an Error"]}

\* source images: the canonical 300x200, one too narrow, and bytes that do not decode
Image(w, h, ok) == [width |-> w, height |-> h, valid |-> ok]
NoImage == Image(0, 0, FALSE)
Images == {Image(ImageWidth, ImageHeight, TRUE), Image(200, ImageHeight, TRUE), NoImage}

FetchOutcomes == {"ok", "not ok", "throws"}
Fallbacks == {"none", "missing", "readable", "unreadable"}

\* how a createCaptcha call gets its image: `image` is passed (fetch and fallback
\* play no part), or it is omitted and getCaptchaImage(fallbackImgPath) runs
ImageArgs ==
    {[image |-> Some(i), fetch |-> "ok", fallback |-> "none"] : i \in Images}
    \cup {[image |-> None, fetch |-> f, fallback |-> b] : f \in FetchOutcomes, b \in Fallbacks}

----------------------------------------------------------------------------
(* createCaptcha, getCaptchaImage: the pure parts *)

\* Math.floor(Math.random() * 249) for Math.random() = k / RandRes
RandomFloor(k) == (k * RandomSpan) \div RandRes

\* Math.max(55, floor) of an outcome `floor` of Math.floor(Math.random() * 249)
OffsetOfFloor(floor) == Max(MinOffset, floor)

SliderOffsetNoMin(k) == RandomFloor(k)
\* Math.max(55, Math.floor(Math.random() * 249))
SliderOffset(k) == OffsetOfFloor(RandomFloor(k))

\* captchaId || randomUUID(): whether randomUUID is called
MintsId(captchaId) == ~(IsSome(captchaId) /\ The(captchaId) # "")
CaptchaIdOfIgnoresArg(captchaId, uuid) == uuid
CaptchaIdOf(captchaId, uuid) == IF MintsId(captchaId) THEN uuid ELSE The(captchaId)

RandomUUIDRepeats == Uuids
\* randomUUID(): the ids it can return, none of them handed out before
RandomUUID == Uuids \ minted

GetCaptchaImageNoFallbackInCatch(fetch, fallback) ==
    LET usable == fallback \in {"readable", "unreadable"}
        remote == [kind |-> "buffer", image |-> Image(ImageWidth, ImageHeight, TRUE),
                   message |-> "", from |-> "fetch"]
        local == [kind |-> "buffer", image |-> Image(ImageWidth, ImageHeight, TRUE),
                  message |-> "", from |-> "fallback"]
    IN  IF fetch = "ok" THEN remote
        ELSE IF fetch = "not ok" /\ ~usable
            THEN [kind |-> "null", image |-> NoImage, message |-> "", from |-> "none"]
        ELSE IF fetch = "not ok" /\ fallback = "readable" THEN local
        ELSE [kind |-> "throw", image |-> NoImage, message |-> FetchErrorPrefix,
              from |-> "none"]
\* getCaptchaImage(fallbackImgPath) by the outcome of the fetch and the state of
\* the fallback file: a buffer, null, or a thrown Error
GetCaptchaImage(fetch, fallback) ==
    LET usable == fallback \in {"readable", "unreadable"}   \* path given and existsSync
        remote == [kind |-> "buffer", image |-> Image(ImageWidth, ImageHeight, TRUE),
                   message |-> "", from |-> "fetch"]
        local == [kind |-> "buffer", image |-> Image(ImageWidth, ImageHeight, TRUE),
                  message |-> "", from |-> "fallback"]
        Throw(message) == [kind |-> "throw", image |-> NoImage, message |-> message,
                           from |-> "none"]
    IN  IF fetch = "ok" THEN remote
        ELSE IF fetch = "not ok" /\ ~usable
            THEN [kind |-> "null", image |-> NoImage, message |-> "", from |-> "none"]
        ELSE IF fetch = "not ok" /\ fallback = "readable" THEN local
        \* fetch threw, or readFileSync threw inside the try block: the catch block
        ELSE IF ~usable THEN Throw(FetchErrorPrefix)
        ELSE IF fallback = "readable" THEN local
        ELSE Throw(FallbackErrorPrefix)

NotImageNever(got) == FALSE
\* !_image, of what `image || (await getCaptchaImage(fallbackImgPath))` gave
NotImage(got) == got.kind = "null"

\* originalImage.clone().extract({left, top: 75, width: 50, height: 50}) succeeds
ExtractOk(image, left) ==
    /\ image.valid
    /\ left >= 0
    /\ left + PieceWidth <= image.width
    /\ PieceTop + PieceHeight <= image.height

\* originalImage.composite([{input: black 50x50, top: 75, left}]).blur().jpeg() succeeds
CompositeOk(image, left) ==
    /\ image.valid
    /\ PieceWidth <= image.width
    /\ PieceHeight <= image.height

Region(left) == [left |-> left, top |-> PieceTop, width |-> PieceWidth, height |-> PieceHeight]

\* the CaptchaData returned: the piece extracted, the square composited, the id
CaptchaData(id, offset) ==
    [puzzle |-> Region(offset), background |-> Region(offset), id |-> id]

\* what Promise.all can reject with: the rejection of whichever of the three
\* operations of the call rejected first
ImageRejection == "image operation's rejection"
StorageRejection == "storeCaptchaId's rejection"
Rejections(call) ==
    (IF ExtractOk(call.image, call.offset) /\ CompositeOk(call.image, call.offset)
     THEN {} ELSE {ImageRejection})
    \cup (IF call.storeState = "rejected" THEN {StorageRejection} ELSE {})

\* storeCaptchaId(id, value) as the storage performs it: an overwrite
StoreCaptchaId(st, id, value) == [st EXCEPT ![id] = value]

----------------------------------------------------------------------------
(* verifyCaptcha: the pure parts *)

Success == [success |-> TRUE]
FailureNoReason(reason) == [success |-> FALSE]
Failure(reason) == [success |-> FALSE, reason |-> reason]

\* tolerance || 10
ToleranceOfNoDefault(tolerance) == IF IsSome(tolerance) THEN The(tolerance) ELSE 0
ToleranceOf(tolerance) ==
    IF IsSome(tolerance) /\ The(tolerance) # 0 THEN The(tolerance) ELSE DefaultTolerance

\* Math.abs(correctPosition - userPosition) <= _tolerance
IsCorrect(correctPosition, userPosition, tolerance) ==
    Abs(correctPosition - userPosition) <= ToleranceOf(tolerance)

AfterGetNoNullCheck(storedValue, value, tolerance) ==
    LET userPosition == ParseInt(value)
        correctPosition == ParseInt(storedValue)
    IN  IF storedValue = ON_VERIFY_CAPTCHA_VALUE
            THEN [next |-> "return", result |-> Success]
        ELSE IF IsNaN(userPosition) \/ IsNaN(correctPosition)
            THEN [next |-> "return", result |-> Failure(ReasonInvalid)]
        ELSE IF IsCorrect(The(correctPosition), The(userPosition), tolerance)
            THEN [next |-> "mark", result |-> Success]
        ELSE [next |-> "return", result |-> Failure(ReasonIncorrect)]

AfterGetMarksAgain(storedValue, value, tolerance) ==
    LET userPosition == ParseInt(value)
        correctPosition == ParseInt(storedValue)
    IN  IF ~Truthy(storedValue) THEN [next |-> "return", result |-> Failure(ReasonNotFound)]
        ELSE IF storedValue = ON_VERIFY_CAPTCHA_VALUE
            THEN [next |-> "mark", result |-> Success]
        ELSE IF IsNaN(userPosition) \/ IsNaN(correctPosition)
            THEN [next |-> "return", result |-> Failure(ReasonInvalid)]
        ELSE IF IsCorrect(The(correctPosition), The(userPosition), tolerance)
            THEN [next |-> "mark", result |-> Success]
        ELSE [next |-> "return", result |-> Failure(ReasonIncorrect)]

AfterGetNoShortcut(storedValue, value, tolerance) ==
    LET userPosition == ParseInt(value)
        correctPosition == ParseInt(storedValue)
    IN  IF ~Truthy(storedValue) THEN [next |-> "return", result |-> Failure(ReasonNotFound)]
        ELSE IF IsNaN(userPosition) \/ IsNaN(correctPosition)
            THEN [next |-> "return", result |-> Failure(ReasonInvalid)]
        ELSE IF IsCorrect(The(correctPosition), The(userPosition), tolerance)
            THEN [next |-> "mark", result |-> Success]
        ELSE [next |-> "return", result |-> Failure(ReasonIncorrect)]

\* verifyCaptcha from the value getCaptchaValue returned up to its next await or
\* return: the result returned, or the changeCaptchaIdOnSuccess call to await
AfterGet(storedValue, value, tolerance) ==
    LET userPosition == ParseInt(value)
        correctPosition == ParseInt(storedValue)
    IN  IF ~Truthy(storedValue) THEN [next |-> "return", result |-> Failure(ReasonNotFound)]
        ELSE IF storedValue = ON_VERIFY_CAPTCHA_VALUE
            THEN [next |-> "return", result |-> Success]
        ELSE IF IsNaN(userPosition) \/ IsNaN(correctPosition)
            THEN [next |-> "return", result |-> Failure(ReasonInvalid)]
        ELSE IF IsCorrect(The(correctPosition), The(userPosition), tolerance)
            THEN [next |-> "mark", result |-> Success]
        ELSE [next |-> "return", result |-> Failure(ReasonIncorrect)]

ErrorMessage(error) == IF error.isError THEN error.message ELSE UnknownError

VerifyCatchRethrows(error) == [outcome |-> "threw", result |-> Failure(<<ErrorMessage(error)>>)]
\* the catch block of verifyCaptcha
VerifyCatch(error) ==
    [outcome |-> "returned",
     result |-> Failure(<<VerificationErrorPrefix, ErrorMessage(error)>>)]

ChangeCaptchaIdOnSuccessAll(st, id, value) ==
    [i \in DOMAIN st |-> IF st[i] # Null THEN value ELSE st[i]]
\* changeCaptchaIdOnSuccess(id, value) as the storage performs it: an overwrite
ChangeCaptchaIdOnSuccess(st, id, value) == [st EXCEPT ![id] = value]

HasCaptchaBeenVerifiedLoose(value) == Truthy(value) /\ IsNaN(ParseInt(value))
\* hasCaptchaBeenVerified(value): what the promise it returns resolves to
HasCaptchaBeenVerified(value) == value = ON_VERIFY_CAPTCHA_VALUE

----------------------------------------------------------------------------
(* State *)

\* a call slot with no call in it
Idle ==
    [op |-> "none", pc |-> "idle", id |-> "", captchaId |-> None, value |-> <<>>,
     tolerance |-> None, stored |-> Null, offset |-> 0, got |-> "none",
     image |-> NoImage, storeState |-> "none"]

\* the last step was no return
NoReturn ==
    [op |-> "none", call |-> 0, outcome |-> "none", id |-> "", captchaId |-> None,
     value |-> <<>>, tolerance |-> None, stored |-> Null, caught |-> None,
     offset |-> 0, got |-> "none", image |-> NoImage, storeState |-> "none",
     fetch |-> "none", fallback |-> "none", from |-> "none", result |-> <<>>]

\* the record of call c returning `result` (outcome "returned") or throwing it
Returned(c, outcome, result, stored, caught) ==
    [op |-> calls[c].op, call |-> c, outcome |-> outcome, id |-> calls[c].id,
     captchaId |-> calls[c].captchaId, value |-> calls[c].value,
     tolerance |-> calls[c].tolerance, stored |-> stored, caught |-> caught,
     offset |-> calls[c].offset, got |-> calls[c].got, image |-> calls[c].image,
     storeState |-> calls[c].storeState,
     fetch |-> "none", fallback |-> "none", from |-> "none", result |-> result]

\* a stored value that is neither absent nor the sentinel: a challenge is pending
Pending(s) == Truthy(s) /\ s # ON_VERIFY_CAPTCHA_VALUE

\* the history after a verifyCaptcha call for id failed while a challenge was pending
FailedOn(id) ==
    [i \in DOMAIN failures |->
        IF i = id /\ Pending(store[i]) /\ failures[i] < MaxFailures
        THEN failures[i] + 1 ELSE failures[i]]
----------------------------------------------------------------------------
(* The client component (client/index.tsx) *)

\* the range input: min="0" max="250"
SliderMin == 0
\* a slider that ends one position short of the largest offset
SliderMaxShort == RandomSpan - 2
SliderMax == 250

\* the body the documented verify route answers with when the route itself fails
RouteError == [error |-> "Verification failed"]

\* no callback has resolved in the last step
NoResolved == [kind |-> "none"]

\* useState(false), useState(null), useState(0), useState(false), useState(null);
\* loading is the prop the parent passes; pending holds the callbacks awaited
WidgetInit ==
    [correct |-> FALSE, captcha |-> None, sliderValue |-> 0, captchaOpen |-> FALSE,
     error |-> None, loading |-> FALSE,
     refreshes |-> 0, verifies |-> {}, succeededFor |-> {}, resolved |-> NoResolved]

\* _refreshCaptcha up to its await
RefreshStarted(w) ==
    [w EXCEPT !.sliderValue = 0, !.error = None, !.correct = FALSE,
              !.refreshes = w.refreshes + 1]

\* if (res.error)
HasError(res) == "error" \in DOMAIN res /\ res.error # ""
\* if (res.success)
HasSuccess(res) == "success" \in DOMAIN res /\ res.success

\* verify after its await: the two branches on the result of the callback
VerifyResolved(w, res) ==
    IF HasError(res) THEN [w EXCEPT !.correct = FALSE, !.error = Some(res.error)]
    ELSE IF HasSuccess(res) THEN [w EXCEPT !.correct = TRUE, !.captchaOpen = FALSE]
    ELSE w

\* the documented verify route: verifyCaptcha over the storage with no tolerance
\* given, its result sent back as the body
VerifyRoute(st, id, value) ==
    LET step == AfterGet(st[id], value, None)
    IN  [result |-> step.result,
         store |-> IF step.next = "mark"
                   THEN ChangeCaptchaIdOnSuccess(st, id, ON_VERIFY_CAPTCHA_VALUE)
                   ELSE st]



\* the history after the challenge under id was replaced or removed
NewChallenge(id) == [i \in DOMAIN failures |-> IF i = id THEN 0 ELSE failures[i]]

Init ==
    /\ store = [i \in Ids |-> Null]
    /\ calls = [c \in Calls |-> Idle]
    /\ ret = NoReturn
    /\ succeeded = {}
    /\ minted = {}
    /\ failures = <<>>
    /\ widget = WidgetInit

\* a new call takes the lowest free slot (slots are interchangeable)
FreeSlot(c) ==
    /\ calls[c].pc = "idle"
    /\ \A d \in DOMAIN calls : d < c => calls[d].pc # "idle"

----------------------------------------------------------------------------
(* verifyCaptcha *)

\* verifyCaptcha(props) up to `await getCaptchaValue(captchaId)`
VerifyCall(c, id, value, tolerance) ==
    /\ FreeSlot(c)
    /\ calls' = [calls EXCEPT ![c] =
                    [Idle EXCEPT !.op = "verify", !.pc = "get", !.id = id,
                                 !.value = value, !.tolerance = tolerance]]
    /\ ret' = NoReturn
    /\ UNCHANGED <<store, succeeded, minted, failures, widget>>

VerifyGetBurnsOnFailure(c) ==
    /\ calls[c].op = "verify" /\ calls[c].pc = "get"
    /\ LET storedValue == store[calls[c].id]
           step == AfterGet(storedValue, calls[c].value, calls[c].tolerance)
       IN  IF step.next = "mark"
           THEN /\ calls' = [calls EXCEPT ![c].pc = "mark", ![c].stored = storedValue]
                /\ ret' = NoReturn
                /\ UNCHANGED <<store, succeeded, failures, widget>>
           ELSE /\ calls' = [calls EXCEPT ![c] = Idle]
                /\ ret' = Returned(c, "returned", step.result, storedValue, None)
                /\ succeeded' = IF step.result.success
                                THEN succeeded \cup {calls[c].id} ELSE succeeded
                /\ UNCHANGED widget
                /\ failures' = IF step.result.success THEN failures
                               ELSE FailedOn(calls[c].id)
                /\ store' = IF step.result.success THEN store
                            ELSE [store EXCEPT ![calls[c].id] = Null]
    /\ UNCHANGED minted

\* getCaptchaValue resolves with the stored value; the call runs to its return or
\* to `await changeCaptchaIdOnSuccess(captchaId, "verified")`
VerifyGet(c) ==
    /\ calls[c].op = "verify" /\ calls[c].pc = "get"
    /\ LET storedValue == store[calls[c].id]
           step == AfterGet(storedValue, calls[c].value, calls[c].tolerance)
       IN  IF step.next = "mark"
           THEN /\ calls' = [calls EXCEPT ![c].pc = "mark", ![c].stored = storedValue]
                /\ ret' = NoReturn
                /\ UNCHANGED <<succeeded, failures, widget>>
           ELSE /\ calls' = [calls EXCEPT ![c] = Idle]
                /\ ret' = Returned(c, "returned", step.result, storedValue, None)
                /\ succeeded' = IF step.result.success
                                THEN succeeded \cup {calls[c].id} ELSE succeeded
                /\ UNCHANGED widget
                /\ failures' = IF step.result.success THEN failures
                               ELSE FailedOn(calls[c].id)
    /\ UNCHANGED <<store, minted>>

\* getCaptchaValue throws or rejects: the catch block
VerifyGetThrows(c, error) ==
    /\ calls[c].op = "verify" /\ calls[c].pc = "get"
    /\ LET caught == VerifyCatch(error)
       IN  ret' = Returned(c, caught.outcome, caught.result, Null, Some(error))
    /\ calls' = [calls EXCEPT ![c] = Idle]
    /\ UNCHANGED widget
    /\ failures' = FailedOn(calls[c].id)
    /\ UNCHANGED <<store, succeeded, minted>>

VerifyMarkDeletes(c) ==
    /\ calls[c].op = "verify" /\ calls[c].pc = "mark"
    /\ store' = [store EXCEPT ![calls[c].id] = Null]
    /\ ret' = Returned(c, "returned", Success, calls[c].stored, None)
    /\ succeeded' = succeeded \cup {calls[c].id}
    /\ calls' = [calls EXCEPT ![c] = Idle]
    /\ UNCHANGED <<minted, failures, widget>>

VerifyMarkSkipsWrite(c) ==
    /\ calls[c].op = "verify" /\ calls[c].pc = "mark"
    /\ ret' = Returned(c, "returned", Success, calls[c].stored, None)
    /\ succeeded' = succeeded \cup {calls[c].id}
    /\ calls' = [calls EXCEPT ![c] = Idle]
    /\ UNCHANGED <<store, minted, failures, widget>>

\* changeCaptchaIdOnSuccess resolves, the entry overwritten: return {success: true}
VerifyMark(c) ==
    /\ calls[c].op = "verify" /\ calls[c].pc = "mark"
    /\ store' = ChangeCaptchaIdOnSuccess(store, calls[c].id, ON_VERIFY_CAPTCHA_VALUE)
    /\ ret' = Returned(c, "returned", Success, calls[c].stored, None)
    /\ succeeded' = succeeded \cup {calls[c].id}
    /\ calls' = [calls EXCEPT ![c] = Idle]
    /\ UNCHANGED <<minted, failures, widget>>

VerifyMarkThrowsIgnored(c, error) ==
    /\ calls[c].op = "verify" /\ calls[c].pc = "mark"
    /\ ret' = Returned(c, "returned", Success, calls[c].stored, Some(error))
    /\ succeeded' = succeeded \cup {calls[c].id}
    /\ calls' = [calls EXCEPT ![c] = Idle]
    /\ UNCHANGED <<store, minted, failures, widget>>

\* changeCaptchaIdOnSuccess throws or rejects, nothing written: the catch block
VerifyMarkThrows(c, error) ==
    /\ calls[c].op = "verify" /\ calls[c].pc = "mark"
    /\ LET caught == VerifyCatch(error)
       IN  ret' = Returned(c, caught.outcome, caught.result, calls[c].stored, Some(error))
    /\ calls' = [calls EXCEPT ![c] = Idle]
    /\ UNCHANGED widget
    /\ failures' = FailedOn(calls[c].id)
    /\ UNCHANGED <<store, succeeded, minted>>

----------------------------------------------------------------------------
(* createCaptcha *)

\* createCaptcha(props) up to Promise.all: the offset and the id are drawn, the
\* image is taken or acquired, and the three operations are started
\* (storeCaptchaId last).  Without an image the call throws here.
CreateCall(c, captchaId, image, fetch, fallback, k, uuid) ==
    /\ FreeSlot(c)
    /\ LET sliderOffset == SliderOffset(k)
           _captchaId == CaptchaIdOf(captchaId, uuid)
           got == IF IsSome(image)
                  THEN [kind |-> "buffer", image |-> The(image), message |-> "",
                        from |-> "argument"]
                  ELSE GetCaptchaImage(fetch, fallback)
           call == [Idle EXCEPT !.op = "create", !.id = _captchaId,
                                !.captchaId = captchaId, !.offset = sliderOffset,
                                !.got = got.kind, !.image = got.image]
       IN  /\ minted' = IF MintsId(captchaId) THEN minted \cup {uuid} ELSE minted
           /\ IF got.kind # "throw" /\ ~NotImage(got)
              THEN /\ calls' = [calls EXCEPT ![c] =
                                   [call EXCEPT !.pc = "join", !.storeState = "pending"]]
                   /\ ret' = IF IsSome(image) THEN NoReturn
                             ELSE [NoReturn EXCEPT
                                     !.op = "getCaptchaImage", !.call = c,
                                     !.outcome = "returned", !.got = got.kind,
                                     !.image = got.image, !.from = got.from,
                                     !.fetch = fetch, !.fallback = fallback]
              ELSE /\ calls' = calls
                   /\ ret' = [NoReturn EXCEPT
                                !.op = "create", !.call = c, !.outcome = "threw",
                                !.id = _captchaId, !.captchaId = captchaId,
                                !.offset = sliderOffset, !.got = got.kind,
                                !.fetch = fetch, !.fallback = fallback,
                                !.result = IF got.kind = "throw" THEN got.message
                                           ELSE NoImageMessage]
    /\ UNCHANGED <<store, succeeded, failures, widget>>

\* the storage performs the write storeCaptchaId(_captchaId, sliderOffset.toString())
\* asked for; the call may already have failed on an image
CreateStore(c) ==
    /\ calls[c].op = "create" /\ calls[c].storeState = "pending"
    /\ store' = StoreCaptchaId(store, calls[c].id, ToString(calls[c].offset))
    /\ calls' = [calls EXCEPT ![c] =
                    IF calls[c].pc = "returned" THEN Idle
                    ELSE [calls[c] EXCEPT !.storeState = "fulfilled"]]
    /\ ret' = NoReturn
    /\ UNCHANGED widget
    /\ failures' = NewChallenge(calls[c].id)
    /\ UNCHANGED <<succeeded, minted>>

\* storeCaptchaId rejects, nothing written
CreateStoreRejects(c) ==
    /\ calls[c].op = "create" /\ calls[c].storeState = "pending"
    /\ calls' = [calls EXCEPT ![c] =
                    IF calls[c].pc = "returned" THEN Idle
                    ELSE [calls[c] EXCEPT !.storeState = "rejected"]]
    /\ ret' = NoReturn
    /\ UNCHANGED <<store, succeeded, minted, failures, widget>>

CreateReturnIgnoresStore(c) ==
    /\ calls[c].op = "create" /\ calls[c].pc = "join"
    /\ ExtractOk(calls[c].image, calls[c].offset)
    /\ CompositeOk(calls[c].image, calls[c].offset)
    /\ calls[c].storeState \in {"fulfilled", "rejected"}
    /\ ret' = Returned(c, "returned", CaptchaData(calls[c].id, calls[c].offset), Null, None)
    /\ calls' = [calls EXCEPT ![c] = Idle]
    /\ UNCHANGED <<store, succeeded, minted, failures, widget>>

CreateReturnBeforeStore(c) ==
    /\ calls[c].op = "create" /\ calls[c].pc = "join"
    /\ ExtractOk(calls[c].image, calls[c].offset)
    /\ CompositeOk(calls[c].image, calls[c].offset)
    /\ calls[c].storeState # "rejected"
    /\ ret' = Returned(c, "returned", CaptchaData(calls[c].id, calls[c].offset), Null, None)
    /\ calls' = [calls EXCEPT ![c] =
                    IF calls[c].storeState = "pending"
                    THEN [calls[c] EXCEPT !.pc = "returned"] ELSE Idle]
    /\ UNCHANGED <<store, succeeded, minted, failures, widget>>

\* Promise.all fulfils, all three operations done: return the CaptchaData
CreateReturn(c) ==
    /\ calls[c].op = "create" /\ calls[c].pc = "join"
    /\ ExtractOk(calls[c].image, calls[c].offset)
    /\ CompositeOk(calls[c].image, calls[c].offset)
    /\ calls[c].storeState = "fulfilled"
    /\ ret' = Returned(c, "returned", CaptchaData(calls[c].id, calls[c].offset), Null, None)
    /\ calls' = [calls EXCEPT ![c] = Idle]
    /\ UNCHANGED <<store, succeeded, minted, failures, widget>>

\* Promise.all rejects with the first rejection, an image operation's or the
\* storage's: createCaptcha throws.  A write still in flight stays in flight.
CreateThrow(c) ==
    /\ calls[c].op = "create" /\ calls[c].pc = "join"
    /\ \/ ~ExtractOk(calls[c].image, calls[c].offset)
       \/ ~CompositeOk(calls[c].image, calls[c].offset)
       \/ calls[c].storeState = "rejected"
    /\ \E rejection \in Rejections(calls[c]) :
          ret' = Returned(c, "threw", rejection, Null, None)
    /\ calls' = [calls EXCEPT ![c] =
                    IF calls[c].storeState = "pending"
                    THEN [calls[c] EXCEPT !.pc = "returned"] ELSE Idle]
    /\ UNCHANGED <<store, succeeded, minted, failures, widget>>

----------------------------------------------------------------------------
(* The storage *)

\* an entry leaves the storage: its TTL runs out, or the application deletes it
Expire(id) ==
    /\ store[id] # Null
    /\ store' = [store EXCEPT ![id] = Null]
    /\ ret' = NoReturn
    /\ UNCHANGED widget
    /\ failures' = NewChallenge(id)
    /\ UNCHANGED <<calls, succeeded, minted>>

\* the application calls hasCaptchaBeenVerified(value); it awaits nothing
HasCaptchaBeenVerifiedCall(value) ==
    /\ ret' = [NoReturn EXCEPT
                 !.op = "hasCaptchaBeenVerified", !.outcome = "returned",
                 !.value = value, !.result = HasCaptchaBeenVerified(value)]
    /\ UNCHANGED <<store, calls, succeeded, minted, failures, widget>>

----------------------------------------------------------------------------
(* Specifications *)

Next ==
    \/ \E c \in Calls, id \in Ids, value \in SubmitValues, tolerance \in Tolerances :
          VerifyCall(c, id, value, tolerance)
    \/ \E c \in Calls : VerifyGet(c)
    \/ \E c \in Calls, error \in Thrown : VerifyGetThrows(c, error)
    \/ \E c \in Calls : VerifyMark(c)
    \/ \E c \in Calls, error \in Thrown : VerifyMarkThrows(c, error)
    \/ \E c \in Calls, captchaId \in CaptchaIdArgs, arg \in ImageArgs, k \in RandomSamples :
          \E uuid \in IF MintsId(captchaId) THEN RandomUUID ELSE {""} :
              CreateCall(c, captchaId, arg.image, arg.fetch, arg.fallback, k, uuid)
    \/ \E c \in Calls : CreateStore(c)
    \/ \E c \in Calls : CreateStoreRejects(c)
    \/ \E c \in Calls : CreateReturn(c)
    \/ \E c \in Calls : CreateThrow(c)
    \/ \E id \in Ids : Expire(id)

Spec == Init /\ [][Next]_vars

\* The canonical image passed in, every outcome of the random draw, one
\* challenge at a time under the caller's id: the draw of the offset in full.
CanonicalImage == Image(ImageWidth, ImageHeight, TRUE)

NextDraw ==
    \/ \E c \in Calls, k \in RandomAll :
          /\ \A i \in Ids : store[i] = Null
          /\ CreateCall(c, Some("a"), Some(CanonicalImage), "ok", "none", k, "")
    \/ \E c \in Calls : CreateStore(c)
    \/ \E c \in Calls : CreateReturn(c)
    \/ \E id \in Ids : Expire(id)

SpecDraw == Init /\ [][NextDraw]_vars

\* Concurrent verifyCaptcha calls on one challenge.  A challenge is created under
\* the caller's id "a" while no call is in progress; then up to MaxCalls
\* verifyCaptcha calls for it run at once, their storage reads and writes
\* interleaved in every order.  The storage answers every request, and the entry
\* outlives the calls on it (a TTL of minutes against calls of milliseconds).
ConcCalls == 1..MaxCalls
\* the draw of the challenge's offset (55), a value within tolerance of it and one outside
ConcDraws == {0}
ConcValues == {ToString(56), ToString(240)}

InitConc ==
    /\ store = [i \in Ids |-> Null]
    /\ calls = [c \in ConcCalls |-> Idle]
    /\ ret = NoReturn
    /\ succeeded = {}
    /\ minted = {}
    /\ failures = <<>>
    /\ widget = WidgetInit

\* no call is in progress
Quiet == \A c \in DOMAIN calls : calls[c].pc = "idle"

NextConc ==
    \/ \E c \in ConcCalls, k \in ConcDraws :
          /\ Quiet
          /\ CreateCall(c, Some("a"), Some(CanonicalImage), "ok", "none", k, "")
    \/ \E c \in ConcCalls : CreateStore(c)
    \/ \E c \in ConcCalls : CreateReturn(c)
    \/ \E c \in ConcCalls, value \in ConcValues :
          /\ \A d \in DOMAIN calls : calls[d].op # "create"
          /\ VerifyCall(c, "a", value, None)
    \/ \E c \in ConcCalls : VerifyGet(c)
    \/ \E c \in ConcCalls : VerifyMark(c)
    \/ Quiet /\ Expire("a")

\* the storage answers every read and every write it is asked for
SpecConc ==
    /\ InitConc /\ [][NextConc]_vars
    /\ \A c \in ConcCalls : WF_vars(VerifyGet(c)) /\ WF_vars(VerifyMark(c))

----------------------------------------------------------------------------
(* Properties *)

\* a stored value that is a pending challenge's offset
IsOffsetString(s) == Truthy(s) /\ s # ON_VERIFY_CAPTCHA_VALUE /\ ~IsNaN(ParseInt(s))

\* the last step was a verifyCaptcha call returning, no injected function having thrown
VerifyReturnedClean == ret.op = "verify" /\ ret.outcome = "returned" /\ ret.caught = None

\* C1 as stated: once a verifyCaptcha call for an id has returned success, every
\* later verifyCaptcha call for that id returns success, whatever it submits, while
\* an entry for the id is in the storage.
C1_SuccessWhilePresent ==
    (ret.op = "verify" /\ ret.id \in succeeded /\ store[ret.id] # Null)
        => (ret.outcome = "returned" /\ ret.result = Success)

\* C1, amended: once a verifyCaptcha call for an id has returned success, every
\* later verifyCaptcha call for that id whose getCaptchaValue returns the sentinel
\* "verified" returns {success: true}, whatever value it submits.
C1_Idempotent ==
    (VerifyReturnedClean /\ ret.id \in succeeded /\ ret.stored = ON_VERIFY_CAPTCHA_VALUE)
        => ret.result = Success

\* a re-verification submitting an unparsable value has returned success
C1_Witness ==
    /\ VerifyReturnedClean /\ ret.id \in succeeded
    /\ ret.stored = ON_VERIFY_CAPTCHA_VALUE
    /\ IsNaN(ParseInt(ret.value))
    /\ ret.result = Success

\* C2 as stated: for a pending challenge with offset s, an integer submission v and
\* a supplied tolerance t >= 0 (t = 0 included), verifyCaptcha returns success
\* exactly when |s - v| <= t.
C2_ToleranceIff ==
    (/\ VerifyReturnedClean
     /\ IsOffsetString(ret.stored)
     /\ ~IsNaN(ParseInt(ret.value))
     /\ IsSome(ret.tolerance) /\ The(ret.tolerance) >= 0)
        => (ret.result.success <=>
                Abs(The(ParseInt(ret.stored)) - The(ParseInt(ret.value))) <= The(ret.tolerance))

\* the value stored under id goes from one offset to another, or from "verified"
\* back to an offset, in this step
OffsetReplaced(id) ==
    /\ store'[id] # store[id]
    /\ IsOffsetString(store'[id])
    /\ IsOffsetString(store[id]) \/ store[id] = ON_VERIFY_CAPTCHA_VALUE

\* C3 as stated: the value stored under an id is never replaced by a different
\* offset and never goes from "verified" back to an offset.
C3_OffsetNeverReplaced == [][\A id \in Ids : ~OffsetReplaced(id)]_vars

\* C3, amended: the value stored under an id is replaced by a different offset, or
\* goes from "verified" back to an offset, only by the storage write of a
\* createCaptcha call that was passed that id as its captchaId; verifyCaptcha and
\* a createCaptcha call that mints its id never do it.
C3_ReplacedOnlyBySuppliedId ==
    [][\A id \in Ids : OffsetReplaced(id) =>
          \E c \in DOMAIN calls :
              /\ calls[c].op = "create" /\ calls[c].storeState = "pending"
              /\ ~MintsId(calls[c].captchaId)
              /\ calls[c].captchaId = Some(id)
              /\ store'[id] = ToString(calls[c].offset)]_vars

\* a createCaptcha call passed an id that had been verified has returned, and the
\* id holds that call's offset
C3_Witness ==
    /\ ret.op = "create" /\ ret.outcome = "returned"
    /\ ret.captchaId = Some(ret.id)
    /\ ret.id \in succeeded
    /\ store[ret.id] = ToString(ret.offset)

\* C4: when a verifyCaptcha call on a pending challenge returns {success: true},
\* the value stored under its id is the sentinel "verified", no longer the offset.
C4_MarkedVerified ==
    (VerifyReturnedClean /\ ret.result = Success /\ IsOffsetString(ret.stored))
        => /\ store[ret.id] = ON_VERIFY_CAPTCHA_VALUE
           /\ ~IsOffsetString(store[ret.id])

\* a within-tolerance verification of a pending challenge has returned success
C4_Witness ==
    /\ VerifyReturnedClean /\ ret.result = Success
    /\ IsOffsetString(ret.stored)
    /\ Abs(The(ParseInt(ret.stored)) - The(ParseInt(ret.value))) = DefaultTolerance
    /\ HasCaptchaBeenVerified(store[ret.id])

\* C5: verifyCaptcha never throws, and when getCaptchaValue or
\* changeCaptchaIdOnSuccess throws, it returns success: false with the reason
\* "Verification error: " followed by the Error's message ("Unknown error" for a
\* thrown value that is no Error).
C5_NeverThrows ==
    ret.op = "verify" =>
        /\ ret.outcome = "returned"
        /\ IsSome(ret.caught) =>
              /\ ret.result.success = FALSE
              /\ ret.result.reason[1] = VerificationErrorPrefix
              /\ The(ret.caught).isError => ret.result.reason[2] = The(ret.caught).message
              /\ ~The(ret.caught).isError => ret.result.reason[2] = UnknownError

\* changeCaptchaIdOnSuccess threw an Error on a pending challenge and the call returned
C5_Witness ==
    /\ ret.op = "verify" /\ ret.outcome = "returned"
    /\ IsSome(ret.caught) /\ The(ret.caught).isError
    /\ IsOffsetString(ret.stored)

\* C6 as stated: a verifyCaptcha call on a pending challenge whose submitted value
\* is outside the tolerance it was given (or outside 10 when none was given)
\* returns success: false with the incorrect-position reason and writes nothing.
C6_OutsideToleranceNoWrite ==
    [][(/\ ret'.op = "verify" /\ ret'.caught = None
        /\ IsOffsetString(ret'.stored)
        /\ ~IsNaN(ParseInt(ret'.value))
        /\ Abs(The(ParseInt(ret'.stored)) - The(ParseInt(ret'.value)))
              > (IF IsSome(ret'.tolerance) THEN The(ret'.tolerance) ELSE DefaultTolerance))
          => (ret'.result = Failure(ReasonIncorrect) /\ store' = store)]_vars

\* C7 as stated: a createCaptcha call that fails has left no challenge in the
\* storage (its write of (id, offset) was not performed), and a call whose
\* storage write failed returns no images.
C7_NoPartialPersistence ==
    /\ (ret.op = "create" /\ ret.outcome = "threw")
          => ~(ret.storeState = "fulfilled" /\ store[ret.id] = ToString(ret.offset))
    /\ (ret.op = "create" /\ ret.outcome = "returned")
          => ret.storeState = "fulfilled"

\* C8: createCaptcha returns its CaptchaData only after the storage has performed
\* the write storeCaptchaId asked for; that write puts, under the id returned, the
\* decimal string of the offset of the piece and of the black square; and an entry
\* leaves the storage only by expiry or deletion, never by a call's own step.
C8_StoredBeforeReturn ==
    [][/\ (ret'.op = "create" /\ ret'.outcome = "returned") =>
            /\ ret'.storeState = "fulfilled"
            /\ ret'.result.id = ret'.id
            /\ ret'.result.puzzle.left = ret'.offset
            /\ ret'.result.background.left = ret'.offset
       /\ \A c \in DOMAIN calls :
            (calls[c].op = "create" /\ calls[c].storeState = "pending"
                /\ calls'[c].storeState = "fulfilled") =>
                /\ store'[calls[c].id] = ToString(calls[c].offset)
                /\ ParseInt(store'[calls[c].id]) = Some(calls[c].offset)
       /\ \A id \in Ids :
            (store[id] # Null /\ store'[id] = Null) => calls' = calls]_vars

\* a createCaptcha call has returned and the storage holds its offset under its id
C8_Witness ==
    /\ ret.op = "create" /\ ret.outcome = "returned"
    /\ store[ret.result.id] = ToString(ret.result.puzzle.left)

\* the offsets createCaptcha has produced: those of the calls in progress, of the
\* call that returned, and those in the storage
OffsetInRange(o) ==
    /\ o \in MinOffset..(RandomSpan - 1)
    /\ o \in 0..(ImageWidth - PieceWidth)
    /\ o + PieceWidth <= ImageWidth

\* C9: every secret offset createCaptcha produces is an integer in [55, 248], so
\* it lies in [0, 300 - 50] and the piece starting there lies inside the image.
C9_OffsetInRange ==
    /\ \A c \in DOMAIN calls : calls[c].op = "create" => OffsetInRange(calls[c].offset)
    /\ ret.op = "create" => OffsetInRange(ret.offset)
    /\ \A id \in Ids : IsOffsetString(store[id]) => OffsetInRange(The(ParseInt(store[id])))

\* the largest draw has been stored
C9_Witness ==
    \E id \in Ids : store[id] = ToString(RandomSpan - 1)

\* the outcomes of Math.floor(Math.random() * 249)
FloorOutcomes == {RandomFloor(k) : k \in RandomAll}
\* how many of them give offset o
FloorCount(o) == Cardinality({f \in FloorOutcomes : OffsetOfFloor(f) = o})

\* C10 as stated: every offset in 55..248 is produced by the same number of the
\* 249 equally likely outcomes of floor(random() * 249).
C10_Uniform ==
    \A c \in DOMAIN calls : calls[c].op = "create" =>
        \A o \in MinOffset..(RandomSpan - 1) : FloorCount(calls[c].offset) = FloorCount(o)

\* C11: concurrent verifyCaptcha calls for the same pending id, each submitting a
\* value within tolerance of the stored offset, all eventually return
\* {success: true}, in every interleaving of their storage reads and writes, and
\* at each of these returns the storage holds the sentinel "verified" for the id.
C11_BothSucceed ==
    \A c \in ConcCalls :
        (/\ calls[c].op = "verify" /\ calls[c].pc = "get"
         /\ IsOffsetString(store[calls[c].id])
         /\ ~IsNaN(ParseInt(calls[c].value))
         /\ IsCorrect(The(ParseInt(store[calls[c].id])), The(ParseInt(calls[c].value)),
                      calls[c].tolerance))
        ~> (/\ ret.op = "verify" /\ ret.call = c /\ ret.outcome = "returned"
            /\ ret.result = Success
            /\ store[ret.id] = ON_VERIFY_CAPTCHA_VALUE)

\* the race: a call that read the offset has written the sentinel and returned
\* success, while another call for the same id that read the same offset is
\* between its read and its write
C11_Witness ==
    /\ ret.op = "verify" /\ ret.result = Success /\ IsOffsetString(ret.stored)
    /\ store[ret.id] = ON_VERIFY_CAPTCHA_VALUE
    /\ \E d \in DOMAIN calls :
          /\ d # ret.call
          /\ calls[d].op = "verify" /\ calls[d].pc = "mark"
          /\ calls[d].id = ret.id /\ calls[d].stored = ret.stored

\* A challenge re-created under the same id while it is being verified.  The
\* caller passes createCaptcha the id "a" again and again, whether or not
\* verifyCaptcha calls for "a" are in progress, up to MaxCalls calls at once.
NextRace ==
    \/ \E c \in ConcCalls, k \in RandomSamples :
          CreateCall(c, Some("a"), Some(CanonicalImage), "ok", "none", k, "")
    \/ \E c \in ConcCalls : CreateStore(c)
    \/ \E c \in ConcCalls : CreateReturn(c)
    \/ \E c \in ConcCalls, value \in ConcValues : VerifyCall(c, "a", value, None)
    \/ \E c \in ConcCalls : VerifyGet(c)
    \/ \E c \in ConcCalls : VerifyMark(c)
    \/ Quiet /\ Expire("a")

SpecRace == InitConc /\ [][NextRace]_vars

\* Retries.  A challenge under the caller's id "a" is created and verifyCaptcha is
\* called on it again and again, with every value and tolerance of the model and a
\* storage that can throw on the read and on the write; the failed calls on the
\* pending challenge are counted.
InitRetry ==
    /\ store = [i \in Ids |-> Null]
    /\ calls = [c \in Calls |-> Idle]
    /\ ret = NoReturn
    /\ succeeded = {}
    /\ minted = {}
    /\ failures = [i \in {"a"} |-> 0]
    /\ widget = WidgetInit

NextRetry ==
    \/ \E c \in Calls, k \in RandomSamples :
          CreateCall(c, Some("a"), Some(CanonicalImage), "ok", "none", k, "")
    \/ \E c \in Calls : CreateStore(c)
    \/ \E c \in Calls : CreateReturn(c)
    \/ \E c \in Calls, value \in SubmitValues, tolerance \in Tolerances :
          VerifyCall(c, "a", value, tolerance)
    \/ \E c \in Calls : VerifyGet(c)
    \/ \E c \in Calls, error \in Thrown : VerifyGetThrows(c, error)
    \/ \E c \in Calls : VerifyMark(c)
    \/ \E c \in Calls, error \in Thrown : VerifyMarkThrows(c, error)
    \/ Expire("a")

SpecRetry == InitRetry /\ [][NextRetry]_vars

\* The status check.  A challenge under the caller's id "a" is created, verified,
\* expires; at any moment the application passes hasCaptchaBeenVerified the value
\* it read from the storage, or any other string.
Str_Verified == <<"V", "e", "r", "i", "f", "i", "e", "d">>
Str_verifie == <<"v", "e", "r", "i", "f", "i", "e">>
Str_verified_ == <<"v", "e", "r", "i", "f", "i", "e", "d", " ">>
StatusStrings ==
    {ToString(n) : n \in 0..(RandomSpan - 1)}
    \cup {<<>>, Str_abc, Str_56px, Str_Verified, Str_verifie, Str_verified_,
          ON_VERIFY_CAPTCHA_VALUE}

NextStatus ==
    \/ \E c \in Calls, k \in RandomSamples :
          CreateCall(c, Some("a"), Some(CanonicalImage), "ok", "none", k, "")
    \/ \E c \in Calls : CreateStore(c)
    \/ \E c \in Calls : CreateReturn(c)
    \/ \E c \in Calls, value \in ConcValues : VerifyCall(c, "a", value, None)
    \/ \E c \in Calls : VerifyGet(c)
    \/ \E c \in Calls : VerifyMark(c)
    \/ Expire("a")
    \/ \E value \in ({store["a"]} \ {Null}) \cup StatusStrings :
          HasCaptchaBeenVerifiedCall(value)

SpecStatus == Init /\ [][NextStatus]_vars

\* C12: a verifyCaptcha call whose getCaptchaValue returns null (no entry for the
\* id: unknown, expired or deleted) returns success: false with the not-found
\* reason, whatever value is submitted, and writes nothing to the storage.
C12_NotFoundNoWrite ==
    [][(ret'.op = "verify" /\ ret'.caught = None /\ ret'.stored = Null)
          => /\ ret'.outcome = "returned"
             /\ ret'.result = Failure(ReasonNotFound)
             /\ store' = store
             /\ calls[ret'.call].pc = "get"]_vars

\* a call for an id that had been verified and has expired since returned not found
C12_Witness ==
    /\ ret.op = "verify" /\ ret.caught = None /\ ret.stored = Null
    /\ ret.id \in succeeded
    /\ ret.result = Failure(ReasonNotFound)

\* a string that is an integer and nothing else: an optional sign, then digits
IsIntegerString(s) ==
    LET u == IF s # <<>> /\ Head(s) \in {"-", "+"} THEN Tail(s) ELSE s
    IN  u # <<>> /\ \A i \in 1..Len(u) : IsDigit(u[i])

\* C13 as stated: for a pending challenge, when the submitted value or the stored
\* value is not an integer ("abc", or digits followed by other characters),
\* verifyCaptcha returns success: false with the invalid-values reason and writes
\* nothing.
C13_NonIntegerInvalid ==
    [][(/\ ret'.op = "verify" /\ ret'.caught = None
        /\ Truthy(ret'.stored) /\ ret'.stored # ON_VERIFY_CAPTCHA_VALUE
        /\ ~IsIntegerString(ret'.value) \/ ~IsIntegerString(ret'.stored))
          => (ret'.result = Failure(ReasonInvalid) /\ store' = store)]_vars

\* C14: every verifyCaptcha result with success = false carries a reason that is
\* not empty, on every failure path, and every result with success = true
\* carries no reason.
C14_ReasonIffFailure ==
    ret.op = "verify" =>
        IF ret.result.success
        THEN DOMAIN ret.result = {"success"}
        ELSE /\ DOMAIN ret.result = {"success", "reason"}
             /\ IF IsSome(ret.caught)
                THEN ret.result.reason[1] # "" \/ ret.result.reason[2] # ""
                ELSE ret.result.reason # ""

\* the catch block has built a reason from a thrown value that is no Error
C14_Witness ==
    /\ ret.op = "verify" /\ IsSome(ret.caught) /\ ~The(ret.caught).isError
    /\ ~ret.result.success
    /\ ret.result.reason = <<VerificationErrorPrefix, UnknownError>>

\* C15: when no image is passed and getCaptchaImage yields null, createCaptcha
\* throws ("Failed to obtain captcha image") and that call never invokes
\* storeCaptchaId: no write is started and the storage is as it was.
C15_NoImageNoStore ==
    [][(ret'.op = "create" /\ ret'.got = "null")
          => /\ ret'.outcome = "threw"
             /\ ret'.result = NoImageMessage
             /\ ret'.storeState = "none"
             /\ calls' = calls
             /\ store' = store]_vars

\* a call passed the id of an existing entry and no image got null from
\* getCaptchaImage and threw, the entry still there
C15_Witness ==
    /\ ret.op = "create" /\ ret.got = "null" /\ ret.outcome = "threw"
    /\ ret.captchaId = Some(ret.id)
    /\ store[ret.id] # Null

\* C16: when storeCaptchaId rejects, createCaptcha throws and returns no captcha
\* data, and when both images were produced it throws storeCaptchaId's own
\* rejection.
C16_StoreRejectionPropagates ==
    (ret.op = "create" /\ ret.storeState = "rejected")
        => /\ ret.outcome = "threw"
           /\ (ExtractOk(ret.image, ret.offset) /\ CompositeOk(ret.image, ret.offset))
                 => ret.result = StorageRejection

\* both images were produced, the storage rejected the write, and the call threw
C16_Witness ==
    /\ ret.op = "create" /\ ret.storeState = "rejected" /\ ret.outcome = "threw"
    /\ ExtractOk(ret.image, ret.offset) /\ CompositeOk(ret.image, ret.offset)
    /\ ret.result = StorageRejection

C18_TrueIffSentinel ==
    [][ret'.op = "hasCaptchaBeenVerified"
          => /\ ret'.result \in BOOLEAN
             /\ ret'.result <=> (ret'.value = <<"v", "e", "r", "i", "f", "i", "e", "d">>)
             /\ ~IsNaN(ParseInt(ret'.value)) => ret'.result = FALSE
             /\ store' = store
             /\ calls' = calls]_vars

\* the application passed the value stored for a verified challenge, and got true
C18_Witness ==
    /\ ret.op = "hasCaptchaBeenVerified"
    /\ ret.value = store["a"] /\ "a" \in succeeded
    /\ ret.result = TRUE

\* C19: when tolerance is omitted, a verifyCaptcha call on a pending challenge
\* with offset s and an integer submission v returns success exactly when
\* |s - v| <= 10.
C19_DefaultTolerance ==
    (/\ VerifyReturnedClean
     /\ ret.tolerance = None
     /\ IsOffsetString(ret.stored)
     /\ IsIntegerString(ret.value))
        => (ret.result.success <=>
                Abs(The(ParseInt(ret.stored)) - The(ParseInt(ret.value))) <= 10)

\* with no tolerance given, a submission 11 away from the offset was refused
C19_Witness ==
    /\ VerifyReturnedClean /\ ret.tolerance = None
    /\ IsOffsetString(ret.stored) /\ IsIntegerString(ret.value)
    /\ Abs(The(ParseInt(ret.stored)) - The(ParseInt(ret.value))) = 11
    /\ ret.result = Failure(ReasonIncorrect)

\* C20: a verifyCaptcha call whose getCaptchaValue returns the sentinel "verified"
\* returns {success: true} straight from that read, whatever value and tolerance
\* it was given: changeCaptchaIdOnSuccess is not called and the storage is
\* unchanged by the call.
C20_VerifiedShortCircuit ==
    [][(ret'.op = "verify" /\ ret'.stored = ON_VERIFY_CAPTCHA_VALUE)
          => /\ ret'.outcome = "returned"
             /\ ret'.caught = None
             /\ ret'.result = Success
             /\ calls[ret'.call].pc = "get"
             /\ store' = store]_vars

\* a call on a verified challenge, given digits followed by other characters and
\* a tolerance of 0, returned success and the entry is still the sentinel
C20_Witness ==
    /\ ret.op = "verify" /\ ret.stored = ON_VERIFY_CAPTCHA_VALUE
    /\ ret.value = Str_56px /\ ret.tolerance = Some(0)
    /\ ret.result = Success
    /\ store[ret.id] = ON_VERIFY_CAPTCHA_VALUE

\* C21: a failed verifyCaptcha call leaves the storage as it was, and however many
\* calls have failed on a pending challenge (incorrect position, unparsable
\* value, a storage function that threw), a call that reads the offset and
\* submits an integer within the tolerance it was given (10 when none) returns
\* {success: true}: nothing counts the attempts.
C21_RetryAlwaysPossible ==
    [][ret'.op = "verify" =>
          /\ ~ret'.result.success => store' = store
          /\ (/\ ret'.caught = None
              /\ IsOffsetString(ret'.stored)
              /\ IsIntegerString(ret'.value)
              /\ Abs(The(ParseInt(ret'.stored)) - The(ParseInt(ret'.value)))
                    <= (IF IsSome(ret'.tolerance) THEN The(ret'.tolerance) ELSE 10))
                => ret'.result = Success]_vars

\* a call has returned success on a challenge on which MaxFailures calls had failed
C21_Witness ==
    /\ ret.op = "verify" /\ ret.result = Success /\ IsOffsetString(ret.stored)
    /\ ret.id \in DOMAIN failures
    /\ failures[ret.id] = MaxFailures

\* C22: a verifyCaptcha call that read a pending challenge's offset returns
\* {success: true} only from the completion of its changeCaptchaIdOnSuccess write,
\* the entry then holding "verified"; when that write fails the call returns
\* success: false and the entry still holds the offset.
C22_SuccessOnlyAfterWrite ==
    [][(ret'.op = "verify" /\ IsOffsetString(ret'.stored))
          => /\ ret'.result.success
                   => /\ calls[ret'.call].pc = "mark"
                      /\ ret'.caught = None
                      /\ store[ret'.id] # ON_VERIFY_CAPTCHA_VALUE
                            => store' = [store EXCEPT ![ret'.id] = ON_VERIFY_CAPTCHA_VALUE]
                      /\ store'[ret'.id] = ON_VERIFY_CAPTCHA_VALUE
             /\ IsSome(ret'.caught)
                   => /\ ~ret'.result.success
                      /\ store' = store]_vars

\* the write of a within-tolerance call failed with a value that is no Error: the
\* call returned success: false and the entry is still the offset it read
C22_Witness ==
    /\ ret.op = "verify" /\ IsOffsetString(ret.stored)
    /\ IsSome(ret.caught) /\ ~The(ret.caught).isError
    /\ ~ret.result.success
    /\ store[ret.id] = ret.stored

\* C23 as stated: with createCaptcha calls reusing the id of a challenge that
\* verifyCaptcha calls are working on, an entry becomes "verified" only by a call
\* whose submitted value is within tolerance of the offset the entry holds at that
\* moment (the one createCaptcha stored last), and a call that read an older
\* offset never turns a newer offset into "verified".
C23_VerifiedOnlyForLatestOffset ==
    [][\A id \in Ids :
          (store'[id] = ON_VERIFY_CAPTCHA_VALUE /\ store[id] # ON_VERIFY_CAPTCHA_VALUE)
            => /\ IsOffsetString(store[id])
               /\ \E c \in DOMAIN calls :
                     /\ calls[c].op = "verify" /\ calls[c].id = id
                     /\ IsCorrect(The(ParseInt(store[id])), The(ParseInt(calls[c].value)),
                                  calls[c].tolerance)
               /\ \A c \in DOMAIN calls :
                     (calls[c].op = "verify" /\ calls[c].pc = "mark"
                        /\ calls[c].id = id /\ calls'[c] # calls[c])
                       => calls[c].stored = store[id]]_vars

----------------------------------------------------------------------------
(* The client component: its handlers, and the callbacks wired as documented *)

\* the ids the refreshCaptcha callback answers with: one the application passes
\* as captchaId, one createCaptcha mints
WidgetIds == {"a", UuidPool[1]}
\* positions the slider is dragged to
WidgetSlides == {SliderMin, 56, SliderMax}

ServerUnchanged == UNCHANGED <<calls, ret, succeeded, minted, failures>>

\* the controlled checkbox (checked={correct}) reports the toggled value
HandleCheckChange ==
    LET opened == [widget EXCEPT !.captchaOpen = ~widget.correct,
                                 !.resolved = NoResolved]
    IN  /\ (widget.captcha = None /\ ~widget.loading) => widget.refreshes < MaxPending
        /\ widget' = IF widget.captcha = None /\ ~widget.loading
                      THEN RefreshStarted(opened) ELSE opened
        /\ UNCHANGED store
        /\ ServerUnchanged

\* the refresh button (disabled={loading}), up to the await of _refreshCaptcha
RefreshClick ==
    /\ widget.captchaOpen
    /\ ~widget.loading
    /\ widget.refreshes < MaxPending
    /\ widget' = RefreshStarted([widget EXCEPT !.resolved = NoResolved])
    /\ UNCHANGED store
    /\ ServerUnchanged

\* the refreshCaptcha callback resolves with the captcha the create route made
\* (createCaptcha stored its offset under id); _refreshCaptcha resumes
RefreshResolve(id, k) ==
    /\ widget.refreshes > 0
    /\ store' = StoreCaptchaId(store, id, ToString(SliderOffset(k)))
    /\ widget' = [widget EXCEPT !.captcha = Some(id),
                                !.refreshes = widget.refreshes - 1,
                                !.resolved = [kind |-> "refresh", id |-> id]]
    /\ ServerUnchanged

\* the refreshCaptcha callback rejects: _refreshCaptcha ends at its await
RefreshReject ==
    /\ widget.refreshes > 0
    /\ widget' = [widget EXCEPT !.refreshes = widget.refreshes - 1,
                                !.resolved = NoResolved]
    /\ UNCHANGED store
    /\ ServerUnchanged

\* the range input, rendered when a captcha is held
SetSliderValue(v) ==
    /\ widget.captchaOpen
    /\ widget.captcha # None
    /\ v # widget.sliderValue
    /\ widget' = [widget EXCEPT !.sliderValue = v, !.resolved = NoResolved]
    /\ UNCHANGED store
    /\ ServerUnchanged

\* the verify button (disabled={loading || !captcha}), up to the await of verify
VerifyClick ==
    /\ widget.captchaOpen
    /\ ~widget.loading
    /\ widget.captcha # None
    /\ Cardinality(widget.verifies) < MaxPending
    /\ widget' = [widget EXCEPT
                    !.verifies = widget.verifies \cup
                        {[id |-> The(widget.captcha),
                          value |-> ToString(widget.sliderValue)]},
                    !.resolved = NoResolved]
    /\ UNCHANGED store
    /\ ServerUnchanged

\* the verifyCaptcha callback resolves with the body of the verify route (the
\* result of verifyCaptcha, or the error body when the route failed); verify resumes
VerifyResolve(p, routeFails) ==
    LET served == VerifyRoute(store, p.id, p.value)
        res == IF routeFails THEN RouteError ELSE served.result
    IN  /\ p \in widget.verifies
        /\ store' = IF routeFails THEN store ELSE served.store
        /\ widget' = [VerifyResolved(widget, res) EXCEPT
                        !.verifies = widget.verifies \ {p},
                        !.succeededFor = IF HasSuccess(res) /\ ~HasError(res)
                                         THEN widget.succeededFor \cup {p.id}
                                         ELSE widget.succeededFor,
                        !.resolved = [kind |-> "verify", id |-> p.id,
                                      value |-> p.value, stored |-> store[p.id],
                                      res |-> res, unchanged |-> ~routeFails]]
        /\ ServerUnchanged

\* the verifyCaptcha callback rejects: verify ends at its await
VerifyReject(p) ==
    /\ p \in widget.verifies
    /\ widget' = [widget EXCEPT !.verifies = widget.verifies \ {p},
                                !.resolved = NoResolved]
    /\ UNCHANGED store
    /\ ServerUnchanged

\* the parent re-renders the component with another value of loading
SetLoading(b) ==
    /\ b # widget.loading
    /\ widget' = [widget EXCEPT !.loading = b, !.resolved = NoResolved]
    /\ UNCHANGED store
    /\ ServerUnchanged

\* the entry of an id expires while the component is shown
WidgetExpire(id) ==
    /\ store[id] # Null
    /\ store' = [store EXCEPT ![id] = Null]
    /\ widget' = [widget EXCEPT !.resolved = NoResolved]
    /\ ServerUnchanged

NextWidget ==
    \/ HandleCheckChange
    \/ RefreshClick
    \/ \E id \in WidgetIds, k \in RandomSamples : RefreshResolve(id, k)
    \/ RefreshReject
    \/ \E v \in WidgetSlides : SetSliderValue(v)
    \/ VerifyClick
    \/ \E p \in widget.verifies, routeFails \in BOOLEAN : VerifyResolve(p, routeFails)
    \/ \E p \in widget.verifies : VerifyReject(p)
    \/ \E b \in BOOLEAN : SetLoading(b)
    \/ \E id \in WidgetIds : WidgetExpire(id)

\* the component as mounted, over an empty storage
SpecWidget == Init /\ [][NextWidget]_vars

\* one challenge from the component: it is opened, the one refreshCaptcha callback
\* answers with a captcha of any offset createCaptcha draws, the slider is dragged
\* from its rest position to any position of its range, and verify is clicked,
\* one click at a time
NextSolve ==
    \/ widget.refreshes = 0 /\ HandleCheckChange
    \/ \E k \in RandomAll : RefreshResolve("a", k)
    \/ \E v \in SliderMin..SliderMax :
            widget.sliderValue = SliderMin /\ SetSliderValue(v)
    \/ widget.verifies = {} /\ VerifyClick
    \/ \E p \in widget.verifies : VerifyResolve(p, FALSE)

SpecSolve == Init /\ [][NextSolve]_vars

\* C24: a verifyCaptcha or createCaptcha call reads and writes the storage only
\* under its own id (the captchaId it was given, or the id it minted): every step
\* of a call for an id leaves the value stored under every other id unchanged, and
\* the value a verifyCaptcha call works on is the one stored under its id.
C24_OtherIdsUntouched ==
    [][/\ \A c \in DOMAIN calls :
            calls'[c] # calls[c] =>
                \A i \in Ids :
                    (i # calls[c].id /\ i # calls'[c].id) => store'[i] = store[i]
       /\ \A c \in DOMAIN calls :
            (calls'[c] # calls[c] /\ calls[c].op # "none" /\ calls'[c].op # "none")
                => calls'[c].id = calls[c].id
       /\ (ret'.op \in {"verify", "create"})
            => (\A i \in Ids \ {ret'.id} : store'[i] = store[i])
       /\ (ret'.op = "verify" /\ ret'.caught = None /\ calls[ret'.call].pc = "get")
            => ret'.stored = store[ret'.id]
       /\ \A c \in DOMAIN calls :
            (calls[c].pc = "get" /\ calls'[c].pc = "mark")
                => calls'[c].stored = store[calls[c].id]]_vars

\* a call verified the challenge of one id while another id held a pending
\* challenge, which is still pending
C24_Witness ==
    /\ ret.op = "verify" /\ ret.result = Success /\ IsOffsetString(ret.stored)
    /\ store[ret.id] = ON_VERIFY_CAPTCHA_VALUE
    /\ \E i \in Ids \ {ret.id} : IsOffsetString(store[i])

\* C25: every challenge createCaptcha can store is solvable from the component:
\* the offset stored is the decimal string of a position of the slider's range,
\* and a verify click with the slider at that position (submitted as its decimal
\* string, no tolerance given) is answered with success and shown as verified.
C25_SolvableFromWidget ==
    /\ \A id \in DOMAIN store :
            Pending(store[id]) =>
                /\ IsSome(ParseInt(store[id]))
                /\ The(ParseInt(store[id])) \in SliderMin..SliderMax
                /\ ToString(The(ParseInt(store[id]))) = store[id]
    /\ (/\ widget.resolved.kind = "verify"
        /\ widget.resolved.unchanged
        /\ widget.resolved.value = widget.resolved.stored)
            => /\ widget.resolved.res = Success
               /\ widget.correct
               /\ store[widget.resolved.id] = ON_VERIFY_CAPTCHA_VALUE

\* the largest offset was stored and the slider, dragged to it, was accepted
C25_Witness ==
    /\ widget.resolved.kind = "verify"
    /\ widget.resolved.stored = ToString(RandomSpan - 1)
    /\ widget.resolved.value = ToString(RandomSpan - 1)
    /\ widget.resolved.res = Success
    /\ widget.correct

\* C26: when a refresh of the component completes (the refreshCaptcha callback
\* has resolved and _refreshCaptcha has set the captcha) with no callback still
\* awaited, the component holds the new id with the slider at 0, no error and
\* correct = false.
C26_RefreshCompletesReset ==
    (/\ widget.resolved.kind = "refresh"
     /\ widget.refreshes = 0
     /\ widget.verifies = {})
        => /\ widget.captcha = Some(widget.resolved.id)
           /\ widget.sliderValue = 0
           /\ widget.error = None
           /\ ~widget.correct

\* C27: correct = true in the component only if the verifyCaptcha callback has
\* resolved with success and no error for the id of the captcha the component
\* holds, whatever the order in which pending verify and refresh callbacks resolve.
C27_CorrectOnlyForHeldCaptcha ==
    widget.correct =>
        /\ widget.captcha # None
        /\ The(widget.captcha) \in widget.succeededFor

\* C28: when the verifyCaptcha callback resolves with the result of the server's
\* verifyCaptcha unchanged and that result is a failure, the component's error is
\* non-null and correct is false.
C28_FailureShown ==
    (/\ widget.resolved.kind = "verify"
     /\ widget.resolved.unchanged
     /\ ~widget.resolved.res.success)
        => /\ widget.error # None
           /\ ~widget.correct

\* C29 as stated: when the fetch answers non-OK or throws, getCaptchaImage returns
\* the fallback file's bytes if the fallback path is given, exists and is readable;
\* otherwise it returns null (non-OK) or throws (fetch threw), and createCaptcha
\* called without an image throws.
C29_FallbackAsStated ==
    (ret.fetch \in {"not ok", "throws"}) =>
        IF ret.fallback = "readable"
        THEN ret.op = "getCaptchaImage" /\ ret.got = "buffer" /\ ret.from = "fallback"
        ELSE /\ ret.op = "create" /\ ret.outcome = "threw"
             /\ ret.fetch = "not ok" => ret.got = "null"
             /\ ret.fetch = "throws" => ret.got = "throw"

\* C29: when the fetch answers non-OK or throws, getCaptchaImage returns the
\* fallback file's bytes if the fallback path is given, exists and is readable; if
\* no path is given or the file does not exist it returns null (non-OK) or throws
\* the fetch error (fetch threw); if the file exists but cannot be read it throws
\* the fallback error in both cases.  In every case without bytes createCaptcha
\* called without an image throws, having stored nothing.
C29_Fallback ==
    (ret.fetch \in {"not ok", "throws"}) =>
        IF ret.fallback = "readable"
        THEN ret.op = "getCaptchaImage" /\ ret.got = "buffer" /\ ret.from = "fallback"
        ELSE /\ ret.op = "create" /\ ret.outcome = "threw"
             /\ calls[ret.call].op = "none"
             /\ IF ret.fallback = "unreadable"
                THEN ret.got = "throw" /\ ret.result = FallbackErrorPrefix
                ELSE IF ret.fetch = "not ok"
                THEN ret.got = "null" /\ ret.result = NoImageMessage
                ELSE ret.got = "throw" /\ ret.result = FetchErrorPrefix

\* the fetch answered non-OK and the fallback file exists but cannot be read:
\* getCaptchaImage threw, and so did createCaptcha
C29_Witness ==
    /\ ret.op = "create" /\ ret.outcome = "threw"
    /\ ret.fetch = "not ok" /\ ret.fallback = "unreadable"
    /\ ret.got = "throw"

=============================================================================
